---- MODULE Spec2Model ----
(***************************************************************************)
(* Stem extraction pipeline of the audio stem separator.                   *)
(*                                                                         *)
(* The repository holds two implementations of the same pipeline:          *)
(*   app.py            - the stand-alone Streamlit application,            *)
(*   pages/English.py  - the page of the multipage application;            *)
(*   pages/Korean.py     is the same code with translated messages.        *)
(* `page` selects the implementation a server process runs.  One script    *)
(* run (main) is split into steps at the calls of the external             *)
(* collaborators: temp file write, AudioAdapter.load, Separator.separate,  *)
(* and one step per stem of the post-processing loop.                      *)
(***************************************************************************)
EXTENDS Integers, Sequences, FiniteSets, TLC

VARIABLES
    page,           \* which script the process serves: "app" | "English" | "Korean"
    cache,          \* st.cache_resource entry of get_separator holds an instance
    constructed,    \* number of Separator("spleeter:5stems") objects built so far
    init_calls,     \* number of calls of Separator("spleeter:5stems"), failed ones included
    runs,           \* number of script runs started so far in the process
    session_state,  \* per session: st.session_state keys separator_loaded, output_dir
    out_files,      \* per session: names of the files in the current output directory
    frame           \* per session: the locals of the current run of main/process_file

vars == <<page, cache, constructed, init_calls, runs, session_state, out_files, frame>>

-----------------------------------------------------------------------------
(* Bounds of the model                                                     *)

MaxRuns == 2        \* script runs per process that are explored
MaxChannels == 2    \* widest stem buffer the model produces (N x MaxChannels)
MaxAnomalies == 2   \* stems per run that are absent, empty or raise

Sessions == {"s1"}

(* the sessions of the specification of concurrent uploads *)
ConcSessions == {"s1", "s2"}

Pages == {"app", "English", "Korean"}

-----------------------------------------------------------------------------
(* Program constants                                                       *)

stems_to_process == <<"vocals", "drums", "bass", "piano", "other">>

total_stems == Len(stems_to_process)

StemSet == {stems_to_process[k] : k \in 1..total_stems}

target_sr == 44100

(* app.py: max_file_size_mb * 1024 * 1024; pages: 500 * 1024 * 1024 *)
max_file_size_bytes(p) ==
    IF p = "app" THEN 100 * 1024 * 1024 ELSE 500 * 1024 * 1024

(* the comparison of the size test turned around *)
TooLargeReversed(size, limit) == size < limit

(* if uploaded_file.size > max_file_size: reject *)
TooLarge(size, limit) == size > limit

-----------------------------------------------------------------------------
(* Inputs                                                                  *)

(* an uploaded file: its name (stem and suffix) and its declared size *)
UploadNames == { [stem |-> "song", suffix |-> ".mp3"] }

UploadSizes(p) == { 1, max_file_size_bytes(p), max_file_size_bytes(p) + 1 }

(* Path(file_name).stem *)
PathStem(name) == name.stem

(* names tempfile gives the input temp file of the pages, one per call *)
TempStems == << "tmpa", "tmpb", "tmpc", "tmpd" >>

(* tmp_path: app.py:153 keeps the upload's name inside a TemporaryDirectory; *)
(* pages:88 take a fresh name with the upload's suffix                       *)
TmpPath(p, name, n) ==
    IF p = "app" THEN name
    ELSE [stem |-> TempStems[((n - 1) % Len(TempStems)) + 1], suffix |-> name.suffix]

(* sample rates AudioAdapter.load may report *)
SampleRates == { target_sr, 22050 }

(* shape of a numpy buffer of N > 1 samples: 1-D (N,), or 2-D (N, ch) *)
Mono1D == [ndim |-> 1, ch |-> 1]

Shapes == { Mono1D } \cup { [ndim |-> 2, ch |-> c] : c \in 1..MaxChannels }

(* what prediction holds for one stem key *)
StemKinds == { "absent", "empty", "valid" }

(* what goes wrong while one stem is processed, if anything: the downmix   *)
(* or denoise raises ("process"), sf.write raises ("write"; both reach the *)
(* same handler), or nr.reduce_noise returns a buffer of size 0            *)
(* ("empty_out")                                                           *)
Faults == { "none", "process", "write", "empty_out" }

-----------------------------------------------------------------------------
(* numpy / soundfile operations on shapes                                  *)

(* stem_audio.mean(axis=1): averages the channel axis away *)
mean_axis1(shape) == Mono1D

(* stem_audio.squeeze(): drops axes of length one *)
squeeze(shape) == IF shape.ch = 1 THEN Mono1D ELSE shape

(* number of channels sf.write gives a file for data of this shape *)
FileChannels(shape) == IF shape.ndim = 1 THEN 1 ELSE shape.ch

(* does the code take the downmix (mean) branch for this stem buffer *)
IsStereoBranch(p, shape) ==
    IF p = "app"
    THEN shape.ndim = 2 /\ shape.ch > 1      \* app.py:104
    ELSE shape.ndim = 2                      \* pages: len(stem_audio.shape) == 2

(* noise reduction without the test for the vocals stem *)
DenoisedAnyStem(p, stem, shape) == IsStereoBranch(p, shape)

(* is nr.reduce_noise called for this stem *)
Denoised(p, stem, shape) == IsStereoBranch(p, shape) /\ stem = "vocals"

(* squeeze() in place of the channel average: a stereo buffer stays stereo *)
DownmixSqueezeOnly(p, shape) == squeeze(shape)

(* shape of processed_audio *)
Downmix(p, shape) ==
    IF IsStereoBranch(p, shape) THEN mean_axis1(shape)
    ELSE IF p = "app" THEN squeeze(shape) ELSE shape

(* sample rate handed to sf.write *)
WriteRate(sr) == sr

(* a writer that refuses to replace an existing file *)
WriteCollidesExclusive(files, name) == name \in files

(* does sf.write fail because the file exists?  It opens the path for     *)
(* writing and truncates an existing file.                                 *)
WriteCollides(files, name) == FALSE

(* the file written for one stem *)
Artifact(p, base, stem, shape, sr) ==
    [ stem     |-> stem,
      name     |-> <<base, stem>>,
      inshape  |-> shape,
      channels |-> FileChannels(Downmix(p, shape)),
      sr       |-> WriteRate(sr),
      denoised |-> Denoised(p, stem, shape),
      empty    |-> FALSE ]

-----------------------------------------------------------------------------
(* State after construction                                                *)

NoName == [stem |-> "", suffix |-> ""]

(* what is kept of a session's previous call of process_file: its input    *)
(* and configuration, whether a fault of the environment hit it, and the   *)
(* mapping it returned                                                     *)
NoPrior ==
    [ ran |-> FALSE, file_name |-> NoName, size |-> 0, load |-> "none",
      sr |-> 0, shape |-> [ndim |-> 0, ch |-> 0], sep |-> "none", pred |-> << >>,
      faulted |-> FALSE, result |-> {} ]

IdleFrame ==
    [ pc            |-> "idle",
      file_name     |-> NoName,
      size          |-> 0,
      pf_called     |-> FALSE,   \* process_file was invoked in this run
      tmp_created   |-> FALSE,   \* the input temp file was created
      tmp_exists    |-> FALSE,   \* the input temp file exists on disk
      tmp_path      |-> NoName,  \* name of the input temp file
      load          |-> "none",  \* "none" | "ok" | "failed"
      sr            |-> 0,
      shape         |-> Mono1D,
      sep           |-> "none",  \* "none" | "ok" | "failed"
      i             |-> 0,       \* stems of the fixed order handled so far
      pred          |-> <<>>,    \* what prediction held for each handled stem (StemKinds)
      raised        |-> {},      \* stems whose processing raised
      injected      |-> {},      \* stems whose processing met a fault of the environment
      written       |-> {},      \* artifacts written during this run
      result        |-> {},      \* keys of the returned mapping
      stem_warnings |-> 0,       \* st.warning calls of extract_stems
      stem_errors   |-> 0,       \* st.error calls of extract_stems
      progress      |-> 0,       \* numerator of the last progress_bar.progress(k / 5)
      nr_calls      |-> 0,       \* calls of nr.reduce_noise
      escaped       |-> FALSE,   \* an exception reached process_file's handler
      rejected      |-> FALSE,   \* main rejected the upload as too large
      halted        |-> FALSE,   \* st.stop() ended the run
      report        |-> "none",  \* main's summary: "none" | "success" | "failure"
      separator     |-> 0,       \* self.separator: which Separator object (0: none)
      mixed         |-> {},      \* sessions whose separate() overlapped this one's on the same object
      pred_from     |-> "",      \* session whose waveform the prediction derives from
      after_sep_failure |-> FALSE, \* the session's previous run ended in a separation failure
      prior         |-> NoPrior ]  \* the session's previous call of process_file

InitFor(S) ==
    /\ page \in Pages
    /\ cache = FALSE
    /\ constructed = 0
    /\ init_calls = 0
    /\ runs = 0
    /\ session_state = [s \in S |-> [separator_loaded |-> FALSE, output_dir |-> FALSE,
                                      dirs |-> 0]]   \* dirs: tempfile.mkdtemp calls
    /\ out_files = [s \in S |-> {}]
    /\ frame = [s \in S |-> IdleFrame]

Init == InitFor(Sessions)

-----------------------------------------------------------------------------
(* Helpers for the per-session locals                                      *)

Upd(s, f) == frame' = [frame EXCEPT ![s] = f]

(* does the failure path of process_file remove the input temp file?       *)
(* app.py cleans the TemporaryDirectory at lines 180, 194 and 213-214;     *)
(* the pages unlink the file on the success path only (line 108).          *)
ExistsAfterFailure(p, exists) == IF p = "app" THEN FALSE ELSE exists

(* process_file returns {} after a fatal failure *)
FailReturn(p, f) ==
    [f EXCEPT !.pc = "returned",
              !.result = {},
              !.tmp_exists = ExistsAfterFailure(p, f.tmp_exists)]

-----------------------------------------------------------------------------
(* main: one script run up to the call of process_file                     *)

(* the separator is built when the cache has none (app) or always (pages) *)
NeedsConstruction(p, cached) == IF p = "app" THEN ~cached ELSE TRUE

(* the record of the call of process_file that frame f holds, if it holds one *)
PriorOf(f) ==
    IF f.pf_called
    THEN [ ran |-> TRUE, file_name |-> f.file_name, size |-> f.size, load |-> f.load,
           sr |-> f.sr, shape |-> f.shape, sep |-> f.sep, pred |-> f.pred,
           faulted |-> (f.injected # {} \/ f.escaped), result |-> f.result ]
    ELSE f.prior

(* keeps: whether the run remembers the session's previous call of         *)
(* process_file (a history of the run, not a variable of the program)      *)
MainRun(s, keeps) ==
    /\ frame[s].pc = "idle"
    /\ runs < MaxRuns
    /\ runs' = runs + 1
    /\ \E up \in {"none", "file"}, name \in UploadNames,
          size \in UploadSizes(page), init_ok \in BOOLEAN :
        LET build    == NeedsConstruction(page, cache)
            \* app.py builds the extractor only for an accepted upload,
            \* the pages build it at the top of every run
            inits    == IF page = "app"
                        THEN up = "file" /\ ~TooLarge(size, max_file_size_bytes(page))
                        ELSE TRUE
            building == inits /\ build
            failed   == building /\ ~init_ok
            fresh    == [IdleFrame EXCEPT !.file_name = IF up = "file" THEN name ELSE NoName,
                                          !.size = IF up = "file" THEN size ELSE 0,
                                          !.after_sep_failure = (frame[s].sep = "failed"),
                                          !.prior = IF keeps THEN PriorOf(frame[s])
                                                    ELSE NoPrior]
        IN
        /\ (up = "none") => (name = CHOOSE n \in UploadNames : TRUE) /\ size = 1
        /\ ~building => init_ok
        /\ init_calls' = IF building THEN init_calls + 1 ELSE init_calls
        /\ constructed' = IF building /\ init_ok THEN constructed + 1 ELSE constructed
        /\ cache' = IF page = "app" /\ building /\ init_ok THEN TRUE ELSE cache
        /\ session_state' =
             [session_state EXCEPT ![s] =
                [ output_dir       |-> IF page = "app" THEN TRUE ELSE @.output_dir,
                  \* app.py:253-254 once per session, pages:132 in every run
                  dirs             |-> IF page = "app" /\ @.output_dir THEN @.dirs
                                       ELSE @.dirs + 1,
                  separator_loaded |-> IF page = "app" /\ inits /\ ~failed
                                       THEN TRUE ELSE @.separator_loaded ]]
        \* the pages call tempfile.mkdtemp() in every run: a new, empty directory
        /\ out_files' = IF page = "app" THEN out_files
                        ELSE [out_files EXCEPT ![s] = {}]
        /\ IF failed
           THEN Upd(s, [fresh EXCEPT !.halted = TRUE])
           ELSE IF up = "none"
           THEN Upd(s, fresh)
           ELSE IF TooLarge(size, max_file_size_bytes(page))
           THEN Upd(s, [fresh EXCEPT !.rejected = TRUE])
           \* self.separator: the cached object (app.py:72, 76) or the new one (pages:36)
           ELSE Upd(s, [fresh EXCEPT !.pc = "ingest", !.pf_called = TRUE,
                                     !.separator = constructed'])
    /\ UNCHANGED page

Main(s) == MainRun(s, FALSE)

-----------------------------------------------------------------------------
(* process_file                                                            *)

(* write the upload to the input temp file *)
Ingest(s) ==
    /\ frame[s].pc = "ingest"
    /\ \E ok \in BOOLEAN :
        LET f == [frame[s] EXCEPT !.tmp_created = TRUE, !.tmp_exists = TRUE,
                                  !.tmp_path = TmpPath(page, frame[s].file_name, runs)] IN
        IF ok
        THEN Upd(s, [f EXCEPT !.pc = "load"])
        ELSE Upd(s, FailReturn(page, [f EXCEPT !.escaped = TRUE]))
    /\ UNCHANGED <<page, cache, constructed, init_calls, runs, session_state, out_files>>

(* audio_loader.load(str(tmp_path), sample_rate=target_sr) *)
Load(s) ==
    /\ frame[s].pc = "load"
    /\ \/ \E sr \in SampleRates, shape \in Shapes :
            Upd(s, [frame[s] EXCEPT !.pc = "separate", !.load = "ok",
                                    !.sr = sr, !.shape = shape])
       \/ Upd(s, FailReturn(page, [frame[s] EXCEPT !.load = "failed"]))
    /\ UNCHANGED <<page, cache, constructed, init_calls, runs, session_state, out_files>>

(* the sessions that are inside separate() on the Separator object of s *)
InFlightWith(s) ==
    { t \in DOMAIN frame \ {s} :
        frame[t].pc = "separating" /\ frame[t].separator = frame[s].separator }

(* self.separator.separate(waveform) is entered; no lock is taken, so the  *)
(* call may overlap the call of another session on the same object        *)
SeparateCall(s) ==
    /\ frame[s].pc = "separate"
    /\ frame' = [t \in DOMAIN frame |->
                   IF t = s THEN [frame[s] EXCEPT !.pc = "separating", !.mixed = InFlightWith(s)]
                   ELSE IF t \in InFlightWith(s) THEN [frame[t] EXCEPT !.mixed = @ \cup {s}]
                   ELSE frame[t]]
    /\ UNCHANGED <<page, cache, constructed, init_calls, runs, session_state, out_files>>

(* self.separator.separate(waveform) returns a prediction or raises *)
SeparateReturn(s) ==
    /\ frame[s].pc = "separating"
    \* calls that overlapped on one object raced on its state: the prediction
    \* may derive from the waveform of any of them
    /\ \/ \E src \in {s} \cup frame[s].mixed :
            Upd(s, [frame[s] EXCEPT !.pc = "stems", !.sep = "ok", !.pred_from = src])
       \/ Upd(s, FailReturn(page, [frame[s] EXCEPT !.sep = "failed"]))
    /\ UNCHANGED <<page, cache, constructed, init_calls, runs, session_state, out_files>>

-----------------------------------------------------------------------------
(* extract_stems: one iteration of the loop over stems_to_process          *)

(* app.py:96 skips a buffer that is no ndarray or has size 0; the pages    *)
(* have no such test and process whatever the key holds                    *)
SkipsEmpty(p) == p = "app"

(* `break` in place of `continue`: the first skipped stem ends the loop *)
StemSkippedBreak(f, kind) ==
    [f EXCEPT !.pc = "extracted",
              !.i = @ + 1,
              !.pred = Append(@, kind),
              !.stem_warnings = @ + 1]

(* the stem is absent from the prediction, or skipped as empty: a warning, *)
(* then `continue` (which also skips the progress update of app.py:142)    *)
StemSkipped(f, kind) ==
    [f EXCEPT !.i = @ + 1,
              !.pred = Append(@, kind),
              !.stem_warnings = @ + 1]

(* the base of the artifact names: file_stem of the upload (app.py:151,    *)
(* 200), the stem of the temp file's path in the pages (105, 73)           *)
ArtifactBase(p, f) == IF p = "app" THEN PathStem(f.file_name) ELSE PathStem(f.tmp_path)

(* the stem's buffer is processed and written *)
StemWritten(p, f, stem, kind, fault) ==
    LET a == [Artifact(p, ArtifactBase(p, f), stem, f.shape, f.sr)
                 EXCEPT !.empty = (kind = "empty" \/ fault = "empty_out")] IN
    [f EXCEPT !.i = @ + 1,
              !.pred = Append(@, kind),
              !.written = @ \cup {a},
              !.result = @ \cup {stem},
              !.nr_calls = IF a.denoised THEN @ + 1 ELSE @,
              !.progress = IF p = "app" THEN f.i + 1 ELSE @]

(* the loop without the size test of app.py:125: the empty buffer is written *)
StemEmptyOutWrite(f, stem, kind) == StemWritten("app", f, stem, kind, "empty_out")

(* app.py:125, 133-135: processed_audio has size 0: a warning, no write *)
StemEmptyOutApp(f, stem, kind) ==
    [f EXCEPT !.i = @ + 1,
              !.pred = Append(@, kind),
              !.stem_warnings = @ + 1,
              !.nr_calls = IF Denoised("app", stem, f.shape) THEN @ + 1 ELSE @,
              !.progress = f.i + 1]

(* app.py:137-139: the exception of one stem is caught inside the loop *)
StemFailedApp(f, stem, kind) ==
    [f EXCEPT !.i = @ + 1,
              !.pred = Append(@, kind),
              !.raised = @ \cup {stem},
              !.stem_errors = @ + 1,
              !.nr_calls = IF Denoised("app", stem, f.shape) THEN @ + 1 ELSE @,
              !.progress = f.i + 1]

(* pages 81-83: the try block encloses the loop; extract_stems returns {} *)
StemFailedPage(p, f, stem, kind) ==
    [f EXCEPT !.pc = "extracted",
              !.pred = Append(@, kind),
              !.raised = @ \cup {stem},
              !.stem_errors = @ + 1,
              !.nr_calls = IF Denoised(p, stem, f.shape) THEN @ + 1 ELSE @,
              !.result = {}]

(* the frame after the stem of index f.i + 1 was handled *)
StemStep(p, f, stem, kind, fault) ==
    IF kind = "absent" THEN StemSkipped(f, "absent")
    ELSE IF kind = "empty" /\ SkipsEmpty(p) THEN StemSkipped(f, "empty")
    ELSE IF fault = "empty_out" /\ p = "app" THEN StemEmptyOutApp(f, stem, kind)
    ELSE IF fault \in {"none", "empty_out"} THEN StemWritten(p, f, stem, kind, fault)
    ELSE IF p = "app" THEN StemFailedApp(f, stem, kind)
    ELSE StemFailedPage(p, f, stem, kind)

(* stems of the run so far that were absent, empty or raised *)
Anomalies(f) ==
    Cardinality({ j \in 1..Len(f.pred) : f.pred[j] # "valid" })
      + Cardinality({ st \in f.raised \cup f.injected : \E j \in 1..Len(f.pred) :
                         stems_to_process[j] = st /\ f.pred[j] = "valid" })

(* the loop ends after the last stem *)
LoopEnd(f) == IF f.pc = "stems" /\ f.i = total_stems THEN [f EXCEPT !.pc = "extracted"] ELSE f

ExtractStem(s) ==
    /\ frame[s].pc = "stems"
    /\ frame[s].i < total_stems
    /\ \E kind \in StemKinds, fault \in Faults :
        LET f    == frame[s]
            stem == stems_to_process[f.i + 1]
            name == <<ArtifactBase(page, f), stem>>
            eff  == IF fault = "none" /\ WriteCollides(out_files[s], name)
                    THEN "write" ELSE fault
            g    == StemStep(page, f, stem, kind, eff)
            h    == [g EXCEPT !.injected = IF fault # "none" THEN @ \cup {stem} ELSE @]
            wrote == g.written # f.written
        IN
        /\ (kind = "absent" \/ (kind = "empty" /\ SkipsEmpty(page))) => fault = "none"
        \* only a buffer that went through nr.reduce_noise can come back empty
        /\ fault = "empty_out" => kind = "valid" /\ Denoised(page, stem, f.shape)
        /\ (kind # "valid" \/ fault # "none") => Anomalies(f) < MaxAnomalies
        /\ Upd(s, LoopEnd(h))
        /\ out_files' = IF wrote
                        THEN [out_files EXCEPT ![s] = @ \cup {name}]
                        ELSE out_files
    /\ UNCHANGED <<page, cache, constructed, init_calls, runs, session_state>>

(* an exception raised in extract_stems outside the per-stem try of app.py *)
(* (a widget call of lines 84-99 or 142-145): it reaches the handler of    *)
(* process_file (app.py:210).  The pages have no code outside the try of   *)
(* extract_stems but two assignments, so there every exception is the      *)
(* failure of a stem (StemFailedPage).                                     *)
ExtractRaise(s) ==
    /\ page = "app"
    /\ frame[s].pc = "stems"
    /\ Upd(s, FailReturn(page, [frame[s] EXCEPT !.escaped = TRUE]))
    /\ UNCHANGED <<page, cache, constructed, init_calls, runs, session_state, out_files>>

(* the success path of process_file: remove the input temp file, return *)
ProcessFileReturn(s) ==
    /\ frame[s].pc = "extracted"
    /\ Upd(s, [frame[s] EXCEPT !.pc = "returned", !.tmp_exists = FALSE])
    /\ UNCHANGED <<page, cache, constructed, init_calls, runs, session_state, out_files>>

(* main's summary of the run *)
Summary(p, result) ==
    IF p = "app"
    THEN IF result # {} THEN "success" ELSE "failure"   \* app.py:287-317
    ELSE "success"                                      \* pages:156, unconditional

Report(s) ==
    /\ frame[s].pc = "returned"
    /\ Upd(s, [frame[s] EXCEPT !.pc = "idle", !.report = Summary(page, frame[s].result)])
    /\ UNCHANGED <<page, cache, constructed, init_calls, runs, session_state, out_files>>

-----------------------------------------------------------------------------

Next ==
    \E s \in Sessions :
        \/ Main(s)
        \/ Ingest(s)
        \/ Load(s)
        \/ SeparateCall(s)
        \/ SeparateReturn(s)
        \/ ExtractStem(s)
        \/ ExtractRaise(s)
        \/ ProcessFileReturn(s)
        \/ Report(s)

Spec == Init /\ [][Next]_vars

(* The same upload is processed again: every run of a session after its    *)
(* first call of process_file gets the same file, the same load outcome,   *)
(* the same prediction (key set and buffer shapes) as that call, and no    *)
(* run meets a fault of the environment.                                   *)
IsPrefix(a, b) == Len(a) <= Len(b) /\ a = SubSeq(b, 1, Len(a))

Replays(f) ==
    /\ f.injected = {} /\ ~f.escaped
    /\ (f.prior.ran /\ f.pf_called) =>
          /\ f.file_name = f.prior.file_name /\ f.size = f.prior.size
          /\ f.load \in {"none", f.prior.load}
          /\ f.load = "ok" => (f.sr = f.prior.sr /\ f.shape = f.prior.shape)
          /\ f.sep \in {"none", f.prior.sep}
          /\ IsPrefix(f.pred, f.prior.pred)

MainReplay(s)              == MainRun(s, TRUE) /\ Replays(frame'[s])
IngestReplay(s)            == Ingest(s) /\ Replays(frame'[s])
LoadReplay(s)              == Load(s) /\ Replays(frame'[s])
SeparateCallReplay(s)      == SeparateCall(s) /\ Replays(frame'[s])
SeparateReturnReplay(s)    == SeparateReturn(s) /\ Replays(frame'[s])
ExtractStemReplay(s)       == ExtractStem(s) /\ Replays(frame'[s])
ProcessFileReturnReplay(s) == ProcessFileReturn(s) /\ Replays(frame'[s])
ReportReplay(s)            == Report(s) /\ Replays(frame'[s])

NextReplay ==
    \E s \in Sessions :
        \/ MainReplay(s)
        \/ IngestReplay(s)
        \/ LoadReplay(s)
        \/ SeparateCallReplay(s)
        \/ SeparateReturnReplay(s)
        \/ ExtractStemReplay(s)
        \/ ProcessFileReturnReplay(s)
        \/ ReportReplay(s)

SpecReplay == Init /\ [][NextReplay]_vars

(* Two sessions of one process upload concurrently (Streamlit runs the     *)
(* script of each session in a thread of its own).  The predictions are    *)
(* complete and no stem raises: the stem loop touches the session's own    *)
(* state only.                                                             *)
InitConc == InitFor(ConcSessions)

(* an iteration of the stem loop on a valid buffer that does not raise *)
ExtractStemClean(s) == ExtractStem(s) /\ Anomalies(frame'[s]) = 0

NextConc ==
    \E s \in ConcSessions :
        \/ Main(s)
        \/ Ingest(s)
        \/ Load(s)
        \/ SeparateCall(s)
        \/ SeparateReturn(s)
        \/ ExtractStemClean(s)
        \/ ProcessFileReturn(s)
        \/ Report(s)

SpecConc == InitConc /\ [][NextConc]_vars

-----------------------------------------------------------------------------
(* Properties                                                              *)

(* process_file has returned in the current run of session s *)
Returned(s) == frame[s].pf_called /\ frame[s].pc \in {"returned", "idle"}

(* extract_stems has returned normally in the current run of session s *)
Extracted(s) ==
    /\ frame[s].sep = "ok"
    /\ ~frame[s].escaped
    /\ frame[s].pc \in {"extracted", "returned", "idle"}

(* the stems of the fixed order whose key held `kind` in the prediction *)
StemsOfKind(f, kind) == { stems_to_process[k] : k \in { j \in 1..Len(f.pred) : f.pred[j] = kind } }

(* the buffer is 2-D with more than one channel *)
MultiChannel(shape) == shape.ndim = 2 /\ shape.ch > 1

(* C1: on every exit path of process_file (success, load failure,          *)
(* separation failure, unexpected exception) the input temp file no longer *)
(* exists when process_file has returned.                                  *)
C1_TempFileGone ==
    \A s \in Sessions : Returned(s) => ~frame[s].tmp_exists

(* C2: when the load step fails, process_file returns an empty mapping,    *)
(* separation and the stem loop are never entered, no artifact is written, *)
(* and the input temp file no longer exists.                               *)
C2_LoadFailure ==
    \A s \in Sessions :
        (Returned(s) /\ frame[s].load = "failed") =>
            /\ frame[s].result = {}
            /\ frame[s].sep = "none"
            /\ frame[s].i = 0
            /\ frame[s].written = {}
            /\ ~frame[s].tmp_exists

(* C3: a separation failure is fatal for the current file only: no stem is *)
(* processed or written, the input temp file is removed, the mapping is    *)
(* empty; and a run that follows it in the session and meets no failure    *)
(* returns all its stems and is reported as a success.                     *)
C3_SeparationFailure ==
    \A s \in Sessions :
        /\ (Returned(s) /\ frame[s].sep = "failed") =>
              /\ frame[s].result = {}
              /\ frame[s].i = 0
              /\ frame[s].written = {}
              /\ ~frame[s].tmp_exists
        /\ ( /\ frame[s].after_sep_failure
             /\ frame[s].pc = "idle"
             /\ Extracted(s)
             /\ frame[s].injected = {}
             /\ StemsOfKind(frame[s], "valid") = StemSet ) =>
              /\ frame[s].result = StemSet
              /\ frame[s].report = "success"

(* C4: an exception raised while one stem is processed is caught and       *)
(* reported and does not stop the loop: when extract_stems has returned,   *)
(* all five stems were handled, every raising stem was reported, and every *)
(* stem written in this run is a key of the returned mapping.              *)
C4_StemIsolation ==
    \A s \in Sessions :
        Extracted(s) =>
            /\ frame[s].i = total_stems
            /\ frame[s].stem_errors = Cardinality(frame[s].raised)
            /\ \A a \in frame[s].written : a.stem \in frame[s].result

(* C5: when no present entry is empty and no stem's processing fails, the  *)
(* returned keys are exactly the stems present in the prediction, one      *)
(* warning is emitted per absent stem, and a run that returns at least one *)
(* stem is not reported as a failure.                                      *)
C5_AbsentStems ==
    \A s \in Sessions :
        ( /\ Extracted(s)
          /\ frame[s].injected = {}
          /\ StemsOfKind(frame[s], "empty") = {} ) =>
            /\ Len(frame[s].pred) = total_stems
            /\ frame[s].result = StemSet \ StemsOfKind(frame[s], "absent")
            /\ frame[s].stem_warnings = Cardinality(StemsOfKind(frame[s], "absent"))
            /\ (frame[s].pc = "idle" /\ frame[s].result # {}) => frame[s].report = "success"

(* a run whose prediction lacks piano only returned the four other stems with one warning *)
C5_Witness ==
    \E s \in Sessions :
        /\ frame[s].pc = "idle"
        /\ Extracted(s)
        /\ frame[s].injected = {}
        /\ frame[s].pred = <<"valid", "valid", "valid", "absent", "valid">>
        /\ frame[s].result = StemSet \ {"piano"}
        /\ frame[s].stem_warnings = 1
        /\ frame[s].report = "success"

(* C6: an artifact made from a multi-channel entry is mono; it has passed  *)
(* through noise reduction if and only if its stem is vocals; no artifact  *)
(* of another stem is denoised; noise reduction is called at most once per *)
(* run, and only when the prediction held a vocals buffer.                 *)
C6_VocalsOnlyDenoise ==
    \A s \in Sessions :
        /\ \A a \in frame[s].written :
              /\ MultiChannel(a.inshape) => a.channels = 1 /\ (a.denoised <=> a.stem = "vocals")
              /\ a.denoised => a.stem = "vocals"
        /\ frame[s].nr_calls <= 1
        /\ frame[s].nr_calls = 1 => Len(frame[s].pred) >= 1 /\ frame[s].pred[1] # "absent"

(* a run wrote a denoised mono vocals and a mono, not denoised drums from stereo entries *)
C6_Witness ==
    \E s \in Sessions :
        /\ MultiChannel(frame[s].shape)
        /\ frame[s].nr_calls = 1
        /\ \E a, b \in frame[s].written :
              /\ a.stem = "vocals" /\ a.denoised /\ a.channels = 1
              /\ b.stem = "drums" /\ ~b.denoised /\ b.channels = 1

(* C7: the returned keys are among the five stems, and every returned      *)
(* artifact was written with one channel at the sample rate the loader     *)
(* returned, whatever the shape of the stem buffer.                        *)
C7_MonoAtLoaderRate ==
    \A s \in Sessions :
        /\ frame[s].result \subseteq StemSet
        /\ \A k \in frame[s].result :
              \E a \in frame[s].written :
                  /\ a.stem = k
                  /\ a.channels = 1
                  /\ a.sr = frame[s].sr

(* a full result from N x MaxChannels buffers loaded at a rate other than the target *)
C7_Witness ==
    \E s \in Sessions :
        /\ frame[s].pc = "idle"
        /\ frame[s].result = StemSet
        /\ frame[s].shape = [ndim |-> 2, ch |-> MaxChannels]
        /\ frame[s].sr # target_sr

(* C8: for an upload larger than the configured maximum process_file is    *)
(* never invoked: no temp file, no load, no separation, no artifact; main  *)
(* rejects the file (unless the run stopped before it read the upload).    *)
C8_OversizeRejected ==
    \A s \in Sessions :
        ( /\ frame[s].file_name # NoName
          /\ frame[s].size > max_file_size_bytes(page) ) =>
            /\ ~frame[s].pf_called
            /\ frame[s].pc = "idle"
            /\ ~frame[s].tmp_created
            /\ frame[s].load = "none"
            /\ frame[s].sep = "none"
            /\ frame[s].written = {}
            /\ frame[s].result = {}
            /\ ~frame[s].halted => frame[s].rejected

(* main has rejected an upload one byte over the limit *)
C8_Witness ==
    \E s \in Sessions :
        /\ frame[s].size = max_file_size_bytes(page) + 1
        /\ frame[s].rejected
        /\ ~frame[s].pf_called

(* C9: one stem's error never makes the outcome a failure: main reports a  *)
(* failure if and only if the returned mapping is empty, and reports       *)
(* success whenever extract_stems wrote at least one stem.                 *)
C9_FailureIffEmpty ==
    \A s \in Sessions :
        (frame[s].pf_called /\ frame[s].pc = "idle") =>
            /\ frame[s].report = "failure" <=> frame[s].result = {}
            /\ (Extracted(s) /\ frame[s].written # {}) => frame[s].report = "success"

(* C10: the Separator is constructed at most once per process lifetime.    *)
C10_SingleInit == constructed <= 1

(* C11: at no time are two separate() calls in flight on one Separator     *)
(* object, so the prediction a file's stems are made from derives from     *)
(* that file's own waveform.                                               *)
C11_SerializedSeparate ==
    /\ \A s, t \in DOMAIN frame :
          (s # t /\ frame[s].pc = "separating" /\ frame[t].pc = "separating")
              => frame[s].separator # frame[t].separator
    /\ \A s \in DOMAIN frame :
          frame[s].sep = "ok" => frame[s].pred_from = s

(* C12: when process_file runs again on the same input with the same       *)
(* configuration (same load outcome, same prediction keys and buffer       *)
(* shapes) and neither run meets an injected failure, the second call      *)
(* returns the stem keys the first returned, also when the output          *)
(* directory still holds the artifacts of the first.                       *)
SameInput(f) ==
    /\ f.prior.ran
    /\ f.file_name = f.prior.file_name /\ f.size = f.prior.size
    /\ f.load = f.prior.load /\ f.sr = f.prior.sr /\ f.shape = f.prior.shape
    /\ f.sep = f.prior.sep /\ f.pred = f.prior.pred

C12_Idempotent ==
    \A s \in Sessions :
        ( /\ Returned(s)
          /\ SameInput(frame[s])
          /\ ~frame[s].prior.faulted
          /\ frame[s].injected = {} /\ ~frame[s].escaped ) =>
            frame[s].result = frame[s].prior.result

(* app.py has processed the same upload twice in one session, the second   *)
(* time over the four artifacts of the first, and returned the same keys   *)
C12_Witness ==
    \E s \in Sessions :
        /\ page = "app"
        /\ Returned(s)
        /\ SameInput(frame[s])
        /\ frame[s].pred = <<"valid", "absent", "valid", "valid", "valid">>
        /\ frame[s].prior.result = StemSet \ {"drums"}
        /\ frame[s].result = frame[s].prior.result
        /\ \A st \in frame[s].result : <<PathStem(frame[s].file_name), st>> \in out_files[s]
        /\ session_state[s].dirs = 1

(* C13: in app.py the stems are handled in the fixed order and, once the   *)
(* i-th stem has been handled (written, skipped or failed), the progress   *)
(* reported is i of total_stems; at the end of the loop it is 5 of 5.      *)
C13_ProgressPerStem ==
    \A s \in Sessions :
        (page = "app" /\ frame[s].sep = "ok" /\ ~frame[s].escaped) =>
            frame[s].progress = frame[s].i

(* C14: every artifact is named after the uploaded file's name without its *)
(* extension and the stem, and a session creates its output directory once *)
(* and reuses it for every upload.                                         *)
C14_NamedInSessionDir ==
    \A s \in Sessions :
        /\ session_state[s].dirs <= 1
        /\ \A a \in frame[s].written :
              /\ a.name = <<PathStem(frame[s].file_name), a.stem>>
              /\ a.name \in out_files[s]

(* C15: in app.py a failed construction of the Separator is final: no      *)
(* later run constructs it again and no file is processed afterwards.      *)
(* app.py constructs only while the cache is empty, so every failure       *)
(* precedes every success, and a failure that was final leaves exactly one *)
(* call of the constructor behind.                                         *)
C15_InitFailureIsFinal ==
    (page = "app" /\ init_calls > constructed) =>
        /\ init_calls = 1
        /\ \A s \in Sessions : ~frame[s].pf_called /\ ~session_state[s].separator_loaded

(* C16: in extract_stems of app.py a stem key enters the mapping only with *)
(* the write of its file in the current run; no empty buffer is written;   *)
(* so every key names a file written in this run from a non-empty buffer,  *)
(* and at return no stem that raised, was empty on entry or came back      *)
(* empty from processing is a key.                                         *)
C16_KeysAreWrittenFiles ==
    \A s \in Sessions :
        page = "app" =>
            /\ \A a \in frame[s].written : ~a.empty /\ a.name \in out_files[s]
            /\ \A st \in frame[s].result :
                  \E a \in frame[s].written :
                      a.stem = st /\ a.name = <<PathStem(frame[s].file_name), st>>
            /\ Extracted(s) =>
                  frame[s].result \cap ( frame[s].raised \cup frame[s].injected
                                           \cup StemsOfKind(frame[s], "empty")
                                           \cup StemsOfKind(frame[s], "absent") ) = {}

(* app.py returned after the denoised vocals came back empty and the write *)
(* of bass raised: the mapping holds the three other stems, all written    *)
C16_Witness ==
    \E s \in Sessions :
        /\ page = "app"
        /\ Extracted(s)
        /\ frame[s].pc = "returned"
        /\ frame[s].pred = <<"valid", "valid", "valid", "valid", "valid">>
        /\ frame[s].raised = {"bass"}
        /\ frame[s].injected = {"vocals", "bass"}
        /\ frame[s].result = {"drums", "piano", "other"}
        /\ { a.stem : a \in frame[s].written } = frame[s].result
        /\ frame[s].stem_warnings = 1 /\ frame[s].stem_errors = 1
====
